---------------------------- MODULE Spec2Model ----------------------------
(***************************************************************************)
(* Device registry and intrusion detector (src/lib/device-registry.ts),    *)
(* audit log (src/lib/audit-log.ts) and latency history                    *)
(* (src/lib/latency-store.ts) of zerotier-manager, run in a browser tab.   *)
(*                                                                         *)
(* The two localStorage values 'zt-known-devices' and                      *)
(* 'zt-intrusion-events' are the variables devices and events; every       *)
(* operation is a synchronous load-mutate-save on them; 'zt-audit-log' and *)
(* 'zt-latency-history' are audit and latency.  A stored optional          *)
(* field that JSON.stringify drops (undefined) is the value Undef.         *)
(* Display-only strings of a member and of an event (networkName, name,    *)
(* description, ipAssignments, lastOnline) take no part in any decision of *)
(* the code and are left out of the records.                               *)
(***************************************************************************)
EXTENDS Integers, Sequences, FiniteSets, TLC

VARIABLES
    devices,    \* localStorage['zt-known-devices']: sequence of KnownDevice
    events,     \* localStorage['zt-intrusion-events']: sequence of IntrusionEvent
    now,        \* Date.now()
    last,       \* the last operation: its name, inputs, return value, pre-state
    rep,        \* set when the last two operations were detectIntrusions on one batch
    newCount,   \* new_device events ever emitted per (nodeId, networkId), up to 2
    steps,      \* number of operations run
    audit,      \* localStorage['zt-audit-log']: sequence of AuditEntry
    latency,    \* localStorage['zt-latency-history']: sequence of PeerLatencyHistory
    hist,       \* what was logged and recorded so far, and the stores before the last operation
    env,        \* the context: whether window is defined, and the keys whose value is not JSON
    tabs        \* the operations in flight in the tabs: what each has loaded and not yet saved

vars == <<devices, events, now, last, rep, newCount, steps, audit, latency, hist,
          env, tabs>>

\* The stores of the audit log and of the latency history
otherStores == <<audit, latency, hist>>

\* What no operation of a single tab on parseable stores changes
surroundings == <<env, tabs>>

---------------------------------------------------------------------------
(* Program constants *)

HOUR == 3600000
DAY == 86400000
MaxEvents == 500

(* Bounds of the model *)

MaxSteps == 2
MaxBatch == 2

Undef == "undefined"

Nodes == {"n1", "n2"}
Nets == {"k1", "k2"}
Deltas == {0, 1, HOUR - 1}
T0 == 2 * DAY

---------------------------------------------------------------------------
(* Helpers on sequences *)

Range(s) == {s[i] : i \in 1..Len(s)}

\* Mutant: slice(0, n), the first n elements
SliceFirst(s, n) == IF Len(s) <= n THEN s ELSE SubSeq(s, 1, n)

\* Array.prototype.slice(-n)
SliceLast(s, n) == IF Len(s) <= n THEN s ELSE SubSeq(s, Len(s) - n + 1, Len(s))

\* Mutant: nothing ever matches
FindIndexNothing(devs, nodeId) == 0

\* Array.prototype.findIndex, 1-based; 0 when nothing matches
FindIndex(devs, nodeId) ==
    IF \E i \in 1..Len(devs) : devs[i].nodeId = nodeId
    THEN CHOOSE i \in 1..Len(devs) :
            /\ devs[i].nodeId = nodeId
            /\ \A j \in 1..(i - 1) : devs[j].nodeId # nodeId
    ELSE 0

\* Array.from(new Set([...networks, networkId])): first occurrences, in order
RECURSIVE Dedupe(_)
Dedupe(s) ==
    IF s = <<>> THEN <<>>
    ELSE LET front == Dedupe(SubSeq(s, 1, Len(s) - 1))
             x == s[Len(s)]
         IN IF x \in Range(front) THEN front ELSE Append(front, x)

\* JavaScript truthiness of an optional string
Truthy(x) == x # Undef /\ x # ""

\* a || b
OrElse(a, b) == IF Truthy(a) THEN a ELSE b

---------------------------------------------------------------------------
(* Device registry *)

DeviceFields ==
    {"nodeId", "nickname", "tags", "firstSeen", "lastSeen", "trusted", "notes",
     "physicalAddress", "clientVersion", "networks"}

\* device.f of a Partial<KnownDevice>: undefined when the key is not supplied
Get(device, f) == IF f \in DOMAIN device THEN device[f] ELSE Undef

\* device.f || dflt
GetOr(device, f, dflt) == IF f \in DOMAIN device THEN device[f] ELSE dflt

\* The record built for an unseen nodeId
NewDevice(device, t) ==
    [nodeId |-> device.nodeId,
     nickname |-> OrElse(Get(device, "nickname"), ""),
     tags |-> GetOr(device, "tags", <<>>),
     firstSeen |-> t,
     lastSeen |-> t,
     trusted |-> GetOr(device, "trusted", FALSE),
     notes |-> OrElse(Get(device, "notes"), ""),
     physicalAddress |-> Get(device, "physicalAddress"),
     clientVersion |-> Get(device, "clientVersion"),
     networks |-> GetOr(device, "networks", <<>>)]

\* { ...old, ...device, lastSeen: now }
MergeDevice(old, device, t) ==
    [f \in DeviceFields |->
        IF f = "lastSeen" THEN t
        ELSE IF f \in DOMAIN device THEN device[f]
        ELSE old[f]]

\* upsertKnownDevice: the registry it saves
UpsertDevices(devs, device, t) ==
    LET idx == FindIndex(devs, device.nodeId)
    IN IF idx > 0
       THEN [devs EXCEPT ![idx] = MergeDevice(devs[idx], device, t)]
       ELSE Append(devs, NewDevice(device, t))

\* removeKnownDevice: the registry it saves
RemoveDevice(devs, nodeId) == SelectSeq(devs, LAMBDA d : d.nodeId # nodeId)

\* addDeviceTag: the registry it leaves
AddTag(devs, nodeId, tag) ==
    LET idx == FindIndex(devs, nodeId)
    IN IF idx > 0 /\ tag \notin Range(devs[idx].tags)
       THEN [devs EXCEPT ![idx].tags = Append(@, tag)]
       ELSE devs

\* removeDeviceTag: the registry it saves
RemoveTag(devs, nodeId, tag) ==
    LET idx == FindIndex(devs, nodeId)
    IN IF idx > 0
       THEN [devs EXCEPT ![idx].tags = SelectSeq(@, LAMBDA x : x # tag)]
       ELSE devs

---------------------------------------------------------------------------
(* Intrusion events *)

\* Mutant: every event is attributed to the first network
EventOnFirstNetwork(t, type, disc, severity, member) ==
    [id |-> <<t, member.nodeId, disc>>,
     timestamp |-> t,
     type |-> type,
     severity |-> severity,
     nodeId |-> member.nodeId,
     networkId |-> "k1",
     acknowledged |-> FALSE]

Event(t, type, disc, severity, member) ==
    [id |-> <<t, member.nodeId, disc>>,
     timestamp |-> t,
     type |-> type,
     severity |-> severity,
     nodeId |-> member.nodeId,
     networkId |-> member.networkId,
     acknowledged |-> FALSE]

\* Mutant: the two severities exchanged
TrustSeveritySwapped(known) == IF known.trusted = TRUE THEN "warning" ELSE "info"

TrustSeverity(known) == IF known.trusted = TRUE THEN "info" ELSE "warning"

\* Mutant: only an acknowledged new_device event suppresses
NewDeviceSuppressedIfAcknowledged(existingEvents, member) ==
    \E i \in 1..Len(existingEvents) :
        LET e == existingEvents[i]
        IN e.nodeId = member.nodeId /\ e.type = "new_device"
           /\ e.networkId = member.networkId /\ e.acknowledged

\* New device detection
NewDeviceSuppressed(existingEvents, member) ==
    \E i \in 1..Len(existingEvents) :
        LET e == existingEvents[i]
        IN e.nodeId = member.nodeId /\ e.type = "new_device"
           /\ e.networkId = member.networkId

NewDeviceCheck(isKnown, existingEvents, member, t) ==
    IF ~isKnown /\ ~NewDeviceSuppressed(existingEvents, member)
    THEN <<Event(t, "new_device", member.networkId, "warning", member)>>
    ELSE <<>>

\* Mutant: the window comparison reversed
UnauthSuppressedOutsideWindow(existingEvents, member, t) ==
    \E i \in 1..Len(existingEvents) :
        LET e == existingEvents[i]
        IN e.nodeId = member.nodeId /\ e.type = "unauthorized_join"
           /\ e.networkId = member.networkId /\ (t - e.timestamp) > HOUR

\* Mutant: an event exactly HOUR old still suppresses
UnauthSuppressedUpToWindow(existingEvents, member, t) ==
    \E i \in 1..Len(existingEvents) :
        LET e == existingEvents[i]
        IN e.nodeId = member.nodeId /\ e.type = "unauthorized_join"
           /\ e.networkId = member.networkId /\ (t - e.timestamp) <= HOUR

\* Unauthorized join attempt
UnauthSuppressed(existingEvents, member, t) ==
    \E i \in 1..Len(existingEvents) :
        LET e == existingEvents[i]
        IN e.nodeId = member.nodeId /\ e.type = "unauthorized_join"
           /\ e.networkId = member.networkId /\ (t - e.timestamp) < HOUR

UnauthCheck(isKnown, known, existingEvents, member, t) ==
    IF ~member.authorized /\ isKnown /\ ~UnauthSuppressed(existingEvents, member, t)
    THEN <<Event(t, "unauthorized_join", "unauth", TrustSeverity(known), member)>>
    ELSE <<>>

\* Physical address change detection
IpChangeSuppressed(existingEvents, member, t) ==
    \E i \in 1..Len(existingEvents) :
        LET e == existingEvents[i]
        IN e.nodeId = member.nodeId /\ e.type = "ip_change" /\ (t - e.timestamp) < HOUR

IpChangeCheck(isKnown, known, existingEvents, member, t) ==
    IF /\ isKnown
       /\ Truthy(member.physicalAddress)
       /\ Truthy(known.physicalAddress)
       /\ member.physicalAddress # known.physicalAddress
       /\ ~IpChangeSuppressed(existingEvents, member, t)
    THEN <<Event(t, "ip_change", "ipchange", TrustSeverity(known), member)>>
    ELSE <<>>

\* Client version change
VersionChangeSuppressed(existingEvents, member, t) ==
    \E i \in 1..Len(existingEvents) :
        LET e == existingEvents[i]
        IN e.nodeId = member.nodeId /\ e.type = "version_change" /\ (t - e.timestamp) < DAY

VersionChangeCheck(isKnown, known, existingEvents, member, t) ==
    IF /\ isKnown
       /\ Truthy(member.clientVersion)
       /\ Truthy(known.clientVersion)
       /\ member.clientVersion # known.clientVersion
       /\ ~VersionChangeSuppressed(existingEvents, member, t)
    THEN <<Event(t, "version_change", "verchange", "info", member)>>
    ELSE <<>>

\* Mutant: the refresh also resets the trust flag
RefreshPayloadResettingTrust(known, member) ==
    [nodeId |-> member.nodeId,
     physicalAddress |-> OrElse(member.physicalAddress, known.physicalAddress),
     clientVersion |-> OrElse(member.clientVersion, known.clientVersion),
     networks |-> Dedupe(Append(known.networks, member.networkId)),
     trusted |-> FALSE]

\* Update known device info: the payload handed to upsertKnownDevice
RefreshPayload(known, member) ==
    [nodeId |-> member.nodeId,
     physicalAddress |-> OrElse(member.physicalAddress, known.physicalAddress),
     clientVersion |-> OrElse(member.clientVersion, known.clientVersion),
     networks |-> Dedupe(Append(known.networks, member.networkId))]

\* One iteration of the loop over currentMembers.  knownDevices and
\* existingEvents are the values loaded before the loop; st.devices is the
\* stored registry, which upsertKnownDevice reloads and saves.
MemberStep(st, member, knownDevices, existingEvents, t) ==
    LET idx == FindIndex(knownDevices, member.nodeId)
        isKnown == idx > 0
        known == IF isKnown THEN knownDevices[idx] ELSE Undef
    IN [newEvents |->
            st.newEvents
                \o NewDeviceCheck(isKnown, existingEvents, member, t)
                \o UnauthCheck(isKnown, known, existingEvents, member, t)
                \o IpChangeCheck(isKnown, known, existingEvents, member, t)
                \o VersionChangeCheck(isKnown, known, existingEvents, member, t),
        devices |->
            IF isKnown
            THEN UpsertDevices(st.devices, RefreshPayload(known, member), t)
            ELSE st.devices]

\* The loop over currentMembers: the first half of the batch, then the second
\* half from the state the first half leaves (s is bound to that state, so
\* the evaluation depth is logarithmic in the length of the batch).
RECURSIVE DetectLoop(_, _, _, _, _)
DetectLoop(st, currentMembers, knownDevices, existingEvents, t) ==
    LET n == Len(currentMembers)
        h == n \div 2
    IN IF n = 0 THEN st
       ELSE IF n = 1
       THEN MemberStep(st, currentMembers[1], knownDevices, existingEvents, t)
       ELSE CHOOSE r \in
               {DetectLoop(s, SubSeq(currentMembers, h + 1, n),
                           knownDevices, existingEvents, t) :
                   s \in {DetectLoop(st, SubSeq(currentMembers, 1, h),
                                      knownDevices, existingEvents, t)}} : TRUE

\* Mutant: the new events are put in front of the log
TrimmedLogNewFirst(existingEvents, newEvents) ==
    IF Len(newEvents) > 0
    THEN SliceLast(newEvents \o existingEvents, MaxEvents)
    ELSE existingEvents

\* Mutant: a single new event is not saved
TrimmedLogIfSeveral(existingEvents, newEvents) ==
    IF Len(newEvents) > 1
    THEN SliceLast(existingEvents \o newEvents, MaxEvents)
    ELSE existingEvents

\* The log detectIntrusions leaves behind
TrimmedLog(existingEvents, newEvents) ==
    IF Len(newEvents) > 0
    THEN SliceLast(existingEvents \o newEvents, MaxEvents)
    ELSE existingEvents

\* Mutant: the flag is toggled
AcknowledgeToggle(evs, eventId) ==
    IF \E i \in 1..Len(evs) : evs[i].id = eventId
    THEN LET i == CHOOSE i \in 1..Len(evs) :
                    /\ evs[i].id = eventId
                    /\ \A j \in 1..(i - 1) : evs[j].id # eventId
         IN [evs EXCEPT ![i].acknowledged = ~@]
    ELSE evs

\* Mutant: a matching id acknowledges the whole log
AcknowledgeEveryEvent(evs, eventId) ==
    IF \E i \in 1..Len(evs) : evs[i].id = eventId
    THEN [i \in 1..Len(evs) |-> [evs[i] EXCEPT !.acknowledged = TRUE]]
    ELSE evs

\* acknowledgeEvent: the log it leaves behind
Acknowledge(evs, eventId) ==
    IF \E i \in 1..Len(evs) : evs[i].id = eventId
    THEN LET i == CHOOSE i \in 1..Len(evs) :
                    /\ evs[i].id = eventId
                    /\ \A j \in 1..(i - 1) : evs[j].id # eventId
         IN [evs EXCEPT ![i].acknowledged = TRUE]
    ELSE evs

\* Mutant: the filter keeps the acknowledged events
Acknowledged(evs) == SelectSeq(evs, LAMBDA e : e.acknowledged)

\* Mutant: the filter also drops the oldest unacknowledged event
UnacknowledgedButOldest(evs) ==
    LET kept == SelectSeq(evs, LAMBDA e : ~e.acknowledged)
    IN IF kept = <<>> THEN kept ELSE Tail(kept)

\* clearAcknowledgedEvents: the log it leaves behind
Unacknowledged(evs) == SelectSeq(evs, LAMBDA e : ~e.acknowledged)

---------------------------------------------------------------------------
(* Inputs *)

Member(n, k, auth, addr, ver) ==
    [nodeId |-> n, networkId |-> k, authorized |-> auth,
     physicalAddress |-> addr, clientVersion |-> ver]

\* Snapshots of the two devices as the Central API may report them
MemberPool ==
    {Member("n1", "k1", FALSE, "a1", "v1"),
     Member("n1", "k1", TRUE, "a2", "v2"),
     Member("n1", "k2", FALSE, "a2", "v1"),
     Member("n1", "k2", TRUE, "", ""),
     Member("n2", "k1", TRUE, "a1", "v1"),
     Member("n2", "k2", FALSE, "", "v1")}

\* A batch lists the members network by network: a (nodeId, networkId)
\* pair occurs at most once in it (src/app/page.tsx builds it so)
DistinctPairs(b) ==
    \A i, j \in 1..Len(b) :
        (b[i].nodeId = b[j].nodeId /\ b[i].networkId = b[j].networkId) => i = j

Batches ==
    {b \in UNION {[1..n -> MemberPool] : n \in 0..MaxBatch} : DistinctPairs(b)}

\* Payloads the pages hand to upsertKnownDevice
Payloads ==
    {[nodeId |-> n] : n \in Nodes}
        \cup {[nodeId |-> n, trusted |-> b] : n \in Nodes, b \in BOOLEAN}

\* An id no event carries
NoSuchId == <<0, "n0", "none">>

---------------------------------------------------------------------------
(* History kept for the properties *)

Pairs == Nodes \X Nets

NoRep == [same |-> FALSE, dt |-> 0, first |-> <<>>, events00 |-> <<>>, devices00 |-> <<>>]

\* The four keys of localStorage
Keys == {"zt-known-devices", "zt-intrusion-events", "zt-audit-log",
         "zt-latency-history"}

\* A browser tab whose stored values are all JSON
Browser == [window |-> TRUE, corrupt |-> {}]

\* No operation is in flight
NoTabs == <<>>

\* Nothing logged or recorded yet
NoHist == [created |-> <<>>, audit0 |-> <<>>, recorded |-> <<>>, latency0 |-> <<>>]

Op(name, arg, batch, returned) ==
    [op |-> name, arg |-> arg, batch |-> batch, returned |-> returned,
     events0 |-> events, devices0 |-> devices,
     audit0 |-> audit, latency0 |-> latency, at |-> now']

\* Number of new_device events of a pair in a sequence of events
CountNew(evs, p) ==
    Cardinality({i \in 1..Len(evs) :
        evs[i].type = "new_device" /\ evs[i].nodeId = p[1] /\ evs[i].networkId = p[2]})

Min(a, b) == IF a <= b THEN a ELSE b

---------------------------------------------------------------------------
(* Operations.  d is the time elapsed since the previous clock reading.     *)
(* The upserts detectIntrusions makes read the clock within the same       *)
(* millisecond as the call itself.                                         *)

DetectResult(currentMembers, t) ==
    DetectLoop([newEvents |-> <<>>, devices |-> devices],
               currentMembers, devices, events, t)

detectIntrusions(currentMembers, d) ==
    /\ steps < MaxSteps
    /\ now' = now + d
    /\ LET st == DetectResult(currentMembers, now + d)
       IN /\ devices' = st.devices
          /\ events' = TrimmedLog(events, st.newEvents)
          /\ last' = Op("detect", Undef, currentMembers, st.newEvents)
          /\ newCount' = [p \in Pairs |->
                            Min(2, newCount[p] + CountNew(st.newEvents, p))]
    /\ rep' = IF last.op = "detect" /\ last.batch = currentMembers
              THEN [same |-> TRUE, dt |-> d, first |-> last.returned,
                    events00 |-> last.events0, devices00 |-> last.devices0]
              ELSE NoRep
    /\ steps' = steps + 1
    /\ UNCHANGED surroundings
    /\ UNCHANGED otherStores

acknowledgeEvent(eventId) ==
    /\ steps < MaxSteps
    /\ UNCHANGED <<devices, now, newCount, otherStores>>
    /\ events' = Acknowledge(events, eventId)
    /\ last' = Op("acknowledge", eventId, <<>>, <<>>)
    /\ rep' = NoRep
    /\ steps' = steps + 1
    /\ UNCHANGED surroundings

clearAcknowledgedEvents ==
    /\ steps < MaxSteps
    /\ UNCHANGED <<devices, now, newCount, otherStores>>
    /\ events' = Unacknowledged(events)
    /\ last' = Op("clear", Undef, <<>>, <<>>)
    /\ rep' = NoRep
    /\ steps' = steps + 1
    /\ UNCHANGED surroundings

upsertKnownDevice(device, d) ==
    /\ steps < MaxSteps
    /\ now' = now + d
    /\ devices' = UpsertDevices(devices, device, now + d)
    /\ last' = Op("upsert", device, <<>>, <<>>)
    /\ rep' = NoRep
    /\ steps' = steps + 1
    /\ UNCHANGED surroundings
    /\ UNCHANGED <<events, newCount, otherStores>>

\* Mutant: the events of the removed device are removed with it
removeKnownDeviceAndEvents(nodeId) ==
    /\ steps < MaxSteps
    /\ UNCHANGED <<now, newCount, otherStores>>
    /\ devices' = RemoveDevice(devices, nodeId)
    /\ events' = SelectSeq(events, LAMBDA e : e.nodeId # nodeId)
    /\ last' = Op("remove", nodeId, <<>>, <<>>)
    /\ rep' = NoRep
    /\ steps' = steps + 1
    /\ UNCHANGED surroundings

removeKnownDevice(nodeId) ==
    /\ steps < MaxSteps
    /\ UNCHANGED <<events, now, newCount, otherStores>>
    /\ devices' = RemoveDevice(devices, nodeId)
    /\ last' = Op("remove", nodeId, <<>>, <<>>)
    /\ rep' = NoRep
    /\ steps' = steps + 1
    /\ UNCHANGED surroundings

addDeviceTag(nodeId, tag) ==
    /\ steps < MaxSteps
    /\ UNCHANGED <<events, now, newCount, otherStores>>
    /\ devices' = AddTag(devices, nodeId, tag)
    /\ last' = Op("addTag", <<nodeId, tag>>, <<>>, <<>>)
    /\ rep' = NoRep
    /\ steps' = steps + 1
    /\ UNCHANGED surroundings

removeDeviceTag(nodeId, tag) ==
    /\ steps < MaxSteps
    /\ UNCHANGED <<events, now, newCount, otherStores>>
    /\ devices' = RemoveTag(devices, nodeId, tag)
    /\ last' = Op("removeTag", <<nodeId, tag>>, <<>>, <<>>)
    /\ rep' = NoRep
    /\ steps' = steps + 1
    /\ UNCHANGED surroundings

---------------------------------------------------------------------------
(* Initial states: the empty stores, and stores a short run leaves behind. *)
(* n1 was registered from the peers page a day ago and last refreshed by a *)
(* detection HOUR - 1 ms ago that found it unauthorized on k1; n2 was      *)
(* reported as a new device on k1 a day ago and never registered.          *)

RegisteredN1(tr, first, seen) ==
    [nodeId |-> "n1", nickname |-> "", tags |-> <<>>,
     firstSeen |-> first, lastSeen |-> seen,
     trusted |-> tr, notes |-> "",
     physicalAddress |-> "a1", clientVersion |-> "v1", networks |-> <<"k1">>]

SeenN2(ack) ==
    [Event(T0 - DAY, "new_device", "k1", "warning",
           Member("n2", "k1", TRUE, "a1", "v1"))
        EXCEPT !.acknowledged = ack]

UnauthN1(tr) ==
    Event(T0 - (HOUR - 1), "unauthorized_join", "unauth",
          IF tr THEN "info" ELSE "warning", Member("n1", "k1", FALSE, "a1", "v1"))

InitStores ==
    {[devices |-> <<>>, events |-> <<>>]}
        \cup {[devices |-> <<RegisteredN1(tr, T0 - DAY, T0 - (HOUR - 1))>>,
               events |-> <<SeenN2(ack), UnauthN1(tr)>>] :
                    tr \in BOOLEAN, ack \in BOOLEAN}

InitAt(stores, t) ==
    /\ \E s \in stores : devices = s.devices /\ events = s.events
    /\ audit = <<>>
    /\ latency = <<>>
    /\ hist = NoHist
    /\ now = t
    /\ last = [op |-> "init", arg |-> Undef, batch |-> <<>>, returned |-> <<>>,
               events0 |-> events, devices0 |-> devices,
               audit0 |-> audit, latency0 |-> latency, at |-> t]
    /\ rep = NoRep
    /\ newCount = [p \in Pairs |-> CountNew(events, p)]
    /\ steps = 0
    /\ env = Browser
    /\ tabs = NoTabs

Init == InitAt(InitStores, T0)

Next ==
    \/ \E b \in Batches, d \in Deltas : detectIntrusions(b, d)
    \/ \E e \in Range(events) : acknowledgeEvent(e.id)
    \/ acknowledgeEvent(NoSuchId)
    \/ clearAcknowledgedEvents
    \/ \E p \in Payloads, d \in Deltas : upsertKnownDevice(p, d)
    \/ \E n \in Nodes : removeKnownDevice(n)

Spec == Init /\ [][Next]_vars

---------------------------------------------------------------------------
(* A long-running installation: n1 has been found unauthorized on k1 once  *)
(* an hour for MaxEvents - 1 or MaxEvents hours, and the operator has      *)
(* acknowledged every second alert.                                        *)

CapT0 == (MaxEvents + 1) * HOUR

HourlyAlert(i) ==
    [Event(i * HOUR, "unauthorized_join", "unauth", "warning",
           Member("n1", "k1", FALSE, "a1", "v1"))
        EXCEPT !.acknowledged = (i % 2 = 0)]

CapStores ==
    {[devices |-> <<RegisteredN1(FALSE, HOUR, MaxEvents * HOUR)>>,
      events |-> [i \in 1..(MaxEvents - free) |-> HourlyAlert(i + free)]] :
            free \in 0..1}

InitCap == InitAt(CapStores, CapT0)

\* n1 still unauthorized; n1 with a new address and version; n2 unknown
CapPool ==
    {Member("n1", "k1", FALSE, "a1", "v1"),
     Member("n1", "k1", TRUE, "a2", "v2"),
     Member("n2", "k1", TRUE, "a1", "v1")}

CapBatches ==
    {b \in UNION {[1..n -> CapPool] : n \in 0..MaxBatch} : DistinctPairs(b)}

CapDeltas == {0, 1}

\* The operator acknowledges one of the two oldest or two newest alerts
Ends(evs) == {i \in 1..Len(evs) : i <= 2 \/ i > Len(evs) - 2}

NextCap ==
    \/ \E b \in CapBatches, d \in CapDeltas : detectIntrusions(b, d)
    \/ \E i \in Ends(events) : acknowledgeEvent(events[i].id)
    \/ clearAcknowledgedEvents

SpecCap == InitCap /\ [][NextCap]_vars

---------------------------------------------------------------------------
(* A first poll of a large deployment: nothing is registered or logged yet *)
(* and the first five networks together have about MaxEvents members,      *)
(* every node being a member of each of them.                              *)

FloodNodes ==
    <<"f001", "f002", "f003", "f004", "f005", "f006", "f007", "f008",
      "f009", "f010", "f011", "f012", "f013", "f014", "f015", "f016",
      "f017", "f018", "f019", "f020", "f021", "f022", "f023", "f024",
      "f025", "f026", "f027", "f028", "f029", "f030", "f031", "f032",
      "f033", "f034", "f035", "f036", "f037", "f038", "f039", "f040",
      "f041", "f042", "f043", "f044", "f045", "f046", "f047", "f048",
      "f049", "f050", "f051", "f052", "f053", "f054", "f055", "f056",
      "f057", "f058", "f059", "f060", "f061", "f062", "f063", "f064",
      "f065", "f066", "f067", "f068", "f069", "f070", "f071", "f072",
      "f073", "f074", "f075", "f076", "f077", "f078", "f079", "f080",
      "f081", "f082", "f083", "f084", "f085", "f086", "f087", "f088",
      "f089", "f090", "f091", "f092", "f093", "f094", "f095", "f096",
      "f097", "f098", "f099", "f100", "f101">>

FloodNets == <<"g1", "g2", "g3", "g4", "g5">>

FloodMember(i) ==
    Member(FloodNodes[((i - 1) % Len(FloodNodes)) + 1],
           FloodNets[((i - 1) \div Len(FloodNodes)) + 1], TRUE, "a1", "v1")

\* The first n members of the five networks, network after network
FloodBatch(n) == [i \in 1..n |-> FloodMember(i)]

FloodSizes == {MaxEvents - 1, MaxEvents, MaxEvents + 1}

FloodStores == {[devices |-> <<>>, events |-> <<>>]}

InitFlood == InitAt(FloodStores, T0)

NextFlood ==
    \/ \E n \in FloodSizes, d \in Deltas : detectIntrusions(FloodBatch(n), d)
    \/ \E i \in Ends(events) : acknowledgeEvent(events[i].id)
    \/ clearAcknowledgedEvents

SpecFlood == InitFlood /\ [][NextFlood]_vars

---------------------------------------------------------------------------
(* Audit log (src/lib/audit-log.ts).  A description `Entry ${i}` is the     *)
(* number i; the four characters Math.random() gives an id are rnd.         *)

MAX_ENTRIES == 500

AuditEntry(idTime, rnd, timestamp, action, category, description, details) ==
    [id |-> <<idTime, rnd>>, timestamp |-> timestamp, action |-> action,
     category |-> category, description |-> description, details |-> details]

getAuditLog == audit

\* Mutant: the cap keeps the oldest entries
AuditTrimmedOldest(entries, entry) ==
    SliceFirst(Append(entries, entry), MAX_ENTRIES)

\* entries.push(entry); entries.slice(-MAX_ENTRIES)
AuditTrimmed(entries, entry) ==
    SliceLast(Append(entries, entry), MAX_ENTRIES)

\* d is the time elapsed before the id is formed, d2 the time between the
\* two readings of the clock
logAction(action, category, description, details, rnd, d, d2) ==
    /\ steps < MaxSteps
    /\ now' = now + d + d2
    /\ LET entry == AuditEntry(now + d, rnd, now + d + d2,
                               action, category, description, details)
       IN /\ audit' = AuditTrimmed(getAuditLog, entry)
          /\ hist' = [hist EXCEPT !.created = Append(@, entry),
                                  !.audit0 = audit]
          /\ last' = Op("logAction", Undef, <<>>, entry)
    /\ steps' = steps + 1
    /\ UNCHANGED surroundings
    /\ UNCHANGED <<devices, events, rep, newCount, latency>>

clearAuditLog ==
    /\ steps < MaxSteps
    /\ UNCHANGED <<devices, events, now, rep, newCount, latency>>
    /\ audit' = <<>>
    /\ hist' = [hist EXCEPT !.created = <<>>, !.audit0 = audit]
    /\ last' = Op("clearAuditLog", Undef, <<>>, <<>>)
    /\ steps' = steps + 1
    /\ env' = [env EXCEPT !.corrupt = @ \ {"zt-audit-log"}]
    /\ UNCHANGED tabs

\* The i-th entry of a run of logAction('network_create', 'network',
\* `Entry ${i - 1}`) calls one millisecond apart
LoggedEntry(i) ==
    AuditEntry(T0 - (2 * MAX_ENTRIES) + i, "r1", T0 - (2 * MAX_ENTRIES) + i,
               "network_create", "network", i - 1, Undef)

\* Number of entries logged before the first state
LoggedBefore == {0, MAX_ENTRIES - 1, MAX_ENTRIES + 19}

Logged(n) == [i \in 1..n |-> LoggedEntry(i)]

InitAudit ==
    /\ devices = <<>> /\ events = <<>> /\ latency = <<>>
    /\ now = T0
    /\ \E n \in LoggedBefore :
          /\ audit = SliceLast(Logged(n), MAX_ENTRIES)
          /\ hist = [NoHist EXCEPT !.created = Logged(n), !.audit0 = audit]
    /\ last = [op |-> "init", arg |-> Undef, batch |-> <<>>, returned |-> <<>>,
               events0 |-> events, devices0 |-> devices,
               audit0 |-> audit, latency0 |-> latency, at |-> T0]
    /\ rep = NoRep
    /\ newCount = [p \in Pairs |-> 0]
    /\ steps = 0
    /\ env = Browser
    /\ tabs = NoTabs

AuditCalls == {<<"network_create", "network">>, <<"device_trust", "device">>}

AuditDescriptions == {2 * MAX_ENTRIES}

AuditDetails == {Undef, "details"}

AuditRandom == {"r1", "r2"}

AuditDeltas == {0, 1}

NextAudit ==
    \/ \E c \in AuditCalls, desc \in AuditDescriptions, det \in AuditDetails,
          rnd \in AuditRandom, d \in AuditDeltas, d2 \in AuditDeltas :
            logAction(c[1], c[2], desc, det, rnd, d, d2)
    \/ clearAuditLog

SpecAudit == InitAudit /\ [][NextAudit]_vars

---------------------------------------------------------------------------
(* Latency history (src/lib/latency-store.ts) *)

MAX_SAMPLES_PER_PEER == 200

MAX_PEERS == 50

\* Node ids of peers, in the order they were first measured
PeerIds ==
    <<"p01", "p02", "p03", "p04", "p05", "p06", "p07", "p08",
      "p09", "p10", "p11", "p12", "p13", "p14", "p15", "p16",
      "p17", "p18", "p19", "p20", "p21", "p22", "p23", "p24",
      "p25", "p26", "p27", "p28", "p29", "p30", "p31", "p32",
      "p33", "p34", "p35", "p36", "p37", "p38", "p39", "p40",
      "p41", "p42", "p43", "p44", "p45", "p46", "p47", "p48",
      "p49", "p50", "p51", "p52">>

getLatencyHistory == latency

\* Array.prototype.sort((a, b) => a.samples.length - b.samples.length):
\* ascending by number of samples, peers of equal count keeping their order
SortedPlace(history, i) ==
    1 + Cardinality({j \in 1..Len(history) :
            \/ Len(history[j].samples) < Len(history[i].samples)
            \/ Len(history[j].samples) = Len(history[i].samples) /\ j < i})

\* Mutant: sorted by descending number of samples
SortedByMostSamples(history) ==
    [k \in 1..Len(history) |->
        history[CHOOSE i \in 1..Len(history) :
                    SortedPlace(history, i) = Len(history) + 1 - k]]

SortedBySamples(history) ==
    [k \in 1..Len(history) |->
        history[CHOOSE i \in 1..Len(history) : SortedPlace(history, i) = k]]

\* The history a new peer is pushed onto
MadeRoom(history) ==
    IF Len(history) >= MAX_PEERS
    THEN Tail(SortedBySamples(history))
    ELSE history

\* Mutant: the cap keeps the oldest samples
SamplesTrimmedOldest(samples) ==
    IF Len(samples) > MAX_SAMPLES_PER_PEER
    THEN SliceFirst(samples, MAX_SAMPLES_PER_PEER)
    ELSE samples

SamplesTrimmed(samples) ==
    IF Len(samples) > MAX_SAMPLES_PER_PEER
    THEN SliceLast(samples, MAX_SAMPLES_PER_PEER)
    ELSE samples

Sample(t, value) == [timestamp |-> t, latency |-> value]

\* The history recordLatency saves
Recorded(history, nodeId, value, t) ==
    LET found == FindIndex(history, nodeId)
        h == IF found = 0
             THEN Append(MadeRoom(history), [nodeId |-> nodeId, samples |-> <<>>])
             ELSE history
        idx == IF found = 0 THEN Len(h) ELSE found
    IN [h EXCEPT ![idx].samples = SamplesTrimmed(Append(@, Sample(t, value)))]

NodeIdsOf(history) == {history[i].nodeId : i \in 1..Len(history)}

recordLatency(nodeId, value, d) ==
    /\ steps < MaxSteps
    /\ now' = now + d
    /\ latency' = Recorded(getLatencyHistory, nodeId, value, now + d)
    /\ hist' = [hist EXCEPT
                  !.latency0 = latency,
                  !.recorded = [q \in DOMAIN @ |->
                      IF q = nodeId THEN Append(IF q \in NodeIdsOf(latency)
                                                THEN @[q] ELSE <<>>,
                                                Sample(now + d, value))
                      ELSE IF q \in NodeIdsOf(latency') THEN @[q] ELSE <<>>]]
    /\ last' = Op("recordLatency", nodeId, <<>>, <<>>)
    /\ steps' = steps + 1
    /\ UNCHANGED surroundings
    /\ UNCHANGED <<devices, events, rep, newCount, audit>>

clearLatencyHistory ==
    /\ steps < MaxSteps
    /\ UNCHANGED <<devices, events, now, rep, newCount, audit>>
    /\ latency' = <<>>
    /\ hist' = [hist EXCEPT !.latency0 = latency,
                            !.recorded = [q \in DOMAIN @ |-> <<>>]]
    /\ last' = Op("clearLatencyHistory", Undef, <<>>, <<>>)
    /\ steps' = steps + 1
    /\ env' = [env EXCEPT !.corrupt = @ \ {"zt-latency-history"}]
    /\ UNCHANGED tabs

getPeerLatencyHistory(nodeId) ==
    LET idx == FindIndex(getLatencyHistory, nodeId)
    IN IF idx = 0 THEN <<>> ELSE getLatencyHistory[idx].samples

\* latencies.reduce((a, b) => a + b, 0) over latencies[lo..hi]
RECURSIVE SumFrom(_, _, _)
SumFrom(latencies, lo, hi) ==
    IF lo > hi THEN 0
    ELSE IF lo = hi THEN latencies[lo]
    ELSE LET mid == (lo + hi) \div 2
         IN SumFrom(latencies, lo, mid) + SumFrom(latencies, mid + 1, hi)

\* Mutant: the quotient truncated towards minus infinity
RoundedDown(sum, n) == sum \div n

\* Math.round(sum / n): the nearest integer, a half rounded up
Rounded(sum, n) == (2 * sum + n) \div (2 * n)

\* null is the record with null = TRUE
getLatencyStats(nodeId) ==
    LET samples == getPeerLatencyHistory(nodeId)
        latencies == [i \in 1..Len(samples) |-> samples[i].latency]
    IN IF Len(samples) = 0 THEN [null |-> TRUE]
       ELSE [null |-> FALSE,
             avg |-> Rounded(SumFrom(latencies, 1, Len(latencies)), Len(latencies)),
             min |-> CHOOSE x \in Range(latencies) : \A y \in Range(latencies) : x <= y,
             max |-> CHOOSE x \in Range(latencies) : \A y \in Range(latencies) : x >= y,
             current |-> latencies[Len(latencies)]]

\* Histories earlier calls leave behind.  One peer measured i - 1 ms at its
\* i-th call, for n calls; or the first n peers of PeerIds, peer i measured
\* 1 + (i % 3) times.
SamplesOfOne(n) == [i \in 1..n |-> Sample(T0 - n + i, i - 1)]

SamplesOfMany(i) ==
    [j \in 1..(1 + (i % 3)) |-> Sample(T0 - MAX_PEERS + i, 10 * i + (j \div 2))]

MeasuredBefore ==
    {<<>>}
      \cup {<<[nodeId |-> PeerIds[1], samples |-> SamplesOfOne(n)]>> :
                n \in {MAX_SAMPLES_PER_PEER - 1, MAX_SAMPLES_PER_PEER + 19}}
      \cup {[i \in 1..n |-> [nodeId |-> PeerIds[i], samples |-> SamplesOfMany(i)]] :
                n \in {MAX_PEERS - 1, MAX_PEERS}}

InitLatency ==
    /\ devices = <<>> /\ events = <<>> /\ audit = <<>>
    /\ now = T0
    /\ \E before \in MeasuredBefore :
          /\ latency = [i \in 1..Len(before) |->
                          [before[i] EXCEPT !.samples = SamplesTrimmed(@)]]
          /\ hist = [NoHist EXCEPT
                        !.latency0 = latency,
                        !.recorded = [q \in Range(PeerIds) |->
                            LET idx == FindIndex(before, q)
                            IN IF idx = 0 THEN <<>> ELSE before[idx].samples]]
    /\ last = [op |-> "init", arg |-> Undef, batch |-> <<>>, returned |-> <<>>,
               events0 |-> events, devices0 |-> devices,
               audit0 |-> audit, latency0 |-> latency, at |-> T0]
    /\ rep = NoRep
    /\ newCount = [p \in Pairs |-> 0]
    /\ steps = 0
    /\ env = Browser
    /\ tabs = NoTabs

\* Peers measured: the first, the third and the last two of PeerIds
MeasuredPeers == {PeerIds[i] : i \in {1, 3, Len(PeerIds) - 1, Len(PeerIds)}}

\* Latencies in ms; -1 is a peer without a measured path
Latencies == {-1, 0, 40}

LatencyDeltas == {1}

NextLatency ==
    \/ \E q \in MeasuredPeers, v \in Latencies, d \in LatencyDeltas :
            recordLatency(q, v, d)
    \/ clearLatencyHistory

SpecLatency == InitLatency /\ [][NextLatency]_vars

---------------------------------------------------------------------------
(* The registry under every payload Partial<KnownDevice> allows: a field   *)
(* may be left out, supplied, or supplied as undefined.                    *)

Tags == {"server", "production"}

TagLists == {<<>>, <<"server">>, <<"server", "server">>}

RegistryPayloads ==
    {[nodeId |-> n] : n \in Nodes}
        \cup {[nodeId |-> n, nickname |-> x] : n \in Nodes, x \in {"Laptop", Undef}}
        \cup {[nodeId |-> n, tags |-> tg] : n \in Nodes, tg \in TagLists}
        \cup {[nodeId |-> n, firstSeen |-> f] : n \in Nodes, f \in {T0 - DAY, T0 + DAY}}
        \cup {[nodeId |-> n, trusted |-> TRUE] : n \in Nodes}

RegistryDeltas == {0, 1}

RegistryStores ==
    {[devices |-> <<>>, events |-> <<>>],
     [devices |-> <<[RegisteredN1(FALSE, T0 - DAY, T0 - HOUR)
                        EXCEPT !.nickname = "Desk", !.tags = <<"server">>]>>,
      events |-> <<>>]}

InitRegistry == InitAt(RegistryStores, T0)

NextRegistry ==
    \/ \E p \in RegistryPayloads, d \in RegistryDeltas : upsertKnownDevice(p, d)
    \/ \E n \in Nodes : removeKnownDevice(n)
    \/ \E n \in Nodes, tag \in Tags : addDeviceTag(n, tag)
    \/ \E n \in Nodes, tag \in Tags : removeDeviceTag(n, tag)
    \/ \E b \in CapBatches, d \in RegistryDeltas : detectIntrusions(b, d)

SpecRegistry == InitRegistry /\ [][NextRegistry]_vars

---------------------------------------------------------------------------
(* The four stores side by side, each holding something, under every       *)
(* operation of the three libraries.                                        *)

StoresLatency == <<[nodeId |-> PeerIds[1], samples |-> SamplesOfOne(2)]>>

InitAllStores ==
    /\ \E s \in InitStores \ {[devices |-> <<>>, events |-> <<>>]} :
            devices = s.devices /\ events = s.events
    /\ audit = Logged(1)
    /\ latency = StoresLatency
    /\ hist = [created |-> Logged(1), audit0 |-> audit, latency0 |-> latency,
               recorded |-> [q \in Range(PeerIds) |->
                    IF q = PeerIds[1] THEN SamplesOfOne(2) ELSE <<>>]]
    /\ now = T0
    /\ last = [op |-> "init", arg |-> Undef, batch |-> <<>>, returned |-> <<>>,
               events0 |-> events, devices0 |-> devices,
               audit0 |-> audit, latency0 |-> latency, at |-> T0]
    /\ rep = NoRep
    /\ newCount = [p \in Pairs |-> CountNew(events, p)]
    /\ steps = 0
    /\ env = Browser
    /\ tabs = NoTabs

NextAllStores ==
    \/ \E b \in CapBatches, d \in CapDeltas : detectIntrusions(b, d)
    \/ \E e \in Range(events) : acknowledgeEvent(e.id)
    \/ acknowledgeEvent(NoSuchId)
    \/ clearAcknowledgedEvents
    \/ \E p \in Payloads, d \in CapDeltas : upsertKnownDevice(p, d)
    \/ \E n \in Nodes : removeKnownDevice(n)
    \/ \E n \in Nodes, tag \in Tags : addDeviceTag(n, tag)
    \/ \E n \in Nodes, tag \in Tags : removeDeviceTag(n, tag)
    \/ \E c \in AuditCalls, desc \in AuditDescriptions, d \in CapDeltas :
            logAction(c[1], c[2], desc, Undef, "r1", d, 0)
    \/ clearAuditLog
    \/ \E i \in 1..2, d \in CapDeltas : recordLatency(PeerIds[i], 40, d)
    \/ clearLatencyHistory

SpecAllStores == InitAllStores /\ [][NextAllStores]_vars

---------------------------------------------------------------------------
(* Storage that is absent or holds text that is not JSON.  env.window is   *)
(* `typeof window !== 'undefined'`; env.corrupt holds the keys whose stored *)
(* text JSON.parse rejects.  The variable of a key that is corrupt, or of   *)
(* any key outside a browser, holds the empty sequence and is not read.    *)

\* JSON.parse(data) of a value that is not JSON: the getters have no
\* try/catch, so the SyntaxError leaves the getter and its caller
Unparseable(keys) == env.window /\ keys \cap env.corrupt # {}

StoredValue(key) ==
    CASE key = "zt-known-devices" -> devices
      [] key = "zt-intrusion-events" -> events
      [] key = "zt-audit-log" -> audit
      [] key = "zt-latency-history" -> latency

\* The operation ends in the SyntaxError; nothing was written
Thrown(name, d) ==
    /\ steps < MaxSteps
    /\ now' = now + d
    /\ UNCHANGED <<devices, events, newCount, otherStores, surroundings>>
    /\ last' = Op("SyntaxError", name, <<>>, <<>>)
    /\ rep' = NoRep
    /\ steps' = steps + 1

\* The operation completes; every write was skipped
Skipped(name, arg, returned, d) ==
    /\ steps < MaxSteps
    /\ now' = now + d
    /\ UNCHANGED <<devices, events, newCount, otherStores, surroundings>>
    /\ last' = Op(name, arg, <<>>, returned)
    /\ rep' = NoRep
    /\ steps' = steps + 1

\* getKnownDevices, getIntrusionEvents, getAuditLog, getLatencyHistory
getStored(key) ==
    IF Unparseable({key}) THEN Thrown(key, 0)
    ELSE Skipped("read", key, IF env.window THEN StoredValue(key) ELSE <<>>, 0)

upsertKnownDeviceCall(device, d) ==
    IF Unparseable({"zt-known-devices"}) THEN Thrown("upsert", 0)
    ELSE IF env.window THEN upsertKnownDevice(device, d)
    ELSE Skipped("upsert", device, <<>>, d)

detectIntrusionsCall(currentMembers, d) ==
    IF Unparseable({"zt-known-devices", "zt-intrusion-events"})
    THEN Thrown("detect", 0)
    ELSE IF env.window THEN detectIntrusions(currentMembers, d)
    ELSE Skipped("detect", Undef, DetectResult(currentMembers, now + d).newEvents, d)

acknowledgeEventCall(eventId) ==
    IF Unparseable({"zt-intrusion-events"}) THEN Thrown("acknowledge", 0)
    ELSE IF env.window THEN acknowledgeEvent(eventId)
    ELSE Skipped("acknowledge", eventId, <<>>, 0)

logActionCall(action, category, description, details, rnd, d, d2) ==
    IF Unparseable({"zt-audit-log"}) THEN Thrown("logAction", d + d2)
    ELSE IF env.window
    THEN logAction(action, category, description, details, rnd, d, d2)
    ELSE Skipped("logAction", Undef,
                 AuditEntry(now + d, rnd, now + d + d2,
                            action, category, description, details), d + d2)

recordLatencyCall(nodeId, value, d) ==
    IF Unparseable({"zt-latency-history"}) THEN Thrown("recordLatency", 0)
    ELSE IF env.window THEN recordLatency(nodeId, value, d)
    ELSE Skipped("recordLatency", nodeId, <<>>, 0)

\* A server render, and a browser with any of the four values damaged
Environments ==
    {[window |-> FALSE, corrupt |-> {}]}
        \cup {[window |-> TRUE, corrupt |-> c] : c \in SUBSET Keys}

Readable(e, key, value) ==
    IF e.window /\ key \notin e.corrupt THEN value ELSE <<>>

InitStorage ==
    /\ env \in Environments
    /\ tabs = NoTabs
    /\ devices = Readable(env, "zt-known-devices",
                          <<RegisteredN1(FALSE, T0 - DAY, T0 - (HOUR - 1))>>)
    /\ events = Readable(env, "zt-intrusion-events",
                         <<SeenN2(FALSE), UnauthN1(FALSE)>>)
    /\ audit = Readable(env, "zt-audit-log", Logged(1))
    /\ latency = Readable(env, "zt-latency-history", StoresLatency)
    /\ hist = [created |-> audit, audit0 |-> audit, latency0 |-> latency,
               recorded |-> [q \in Range(PeerIds) |->
                    IF q \in NodeIdsOf(latency) THEN SamplesOfOne(2) ELSE <<>>]]
    /\ now = T0
    /\ last = [op |-> "init", arg |-> Undef, batch |-> <<>>, returned |-> <<>>,
               events0 |-> events, devices0 |-> devices,
               audit0 |-> audit, latency0 |-> latency, at |-> T0]
    /\ rep = NoRep
    /\ newCount = [p \in Pairs |-> CountNew(events, p)]
    /\ steps = 0

NextStorage ==
    \/ \E k \in Keys : getStored(k)
    \/ \E p \in Payloads, d \in CapDeltas : upsertKnownDeviceCall(p, d)
    \/ \E b \in CapBatches, d \in CapDeltas : detectIntrusionsCall(b, d)
    \/ \E e \in Range(events) : acknowledgeEventCall(e.id)
    \/ acknowledgeEventCall(NoSuchId)
    \/ \E c \in AuditCalls, desc \in AuditDescriptions, d \in CapDeltas :
            logActionCall(c[1], c[2], desc, Undef, "r1", d, 0)
    \/ \E i \in 1..2, d \in CapDeltas : recordLatencyCall(PeerIds[i], 40, d)
    \/ clearAuditLog
    \/ clearLatencyHistory

SpecStorage == InitStorage /\ [][NextStorage]_vars

---------------------------------------------------------------------------
(* Two tabs over one localStorage.  An operation of a tab is a getItem and  *)
(* a later setItem; another tab may run between the two.  tabs.run holds   *)
(* what each tab has in hand, tabs.done the operations completed, in order.*)

TabIds == {"A", "B"}

Idle ==
    [pc |-> "idle", loaded |-> <<>>, devs |-> <<>>, members |-> <<>>,
     entry |-> <<>>, t |-> 0, seen |-> 0]

NoneInFlight == [run |-> [tab \in TabIds |-> Idle], done |-> <<>>]

Done(tab, name, arg, r, returned, before, after) ==
    [tab |-> tab, op |-> name, arg |-> arg, seen |-> r.seen,
     loaded |-> r.loaded, returned |-> returned,
     before |-> before, after |-> after]

\* Mutant: the log is read again at the save
EntriesSavedReloaded(loaded, stored) == stored

\* const entries = getAuditLog(): the array in hand is the one saved
EntriesSaved(loaded, stored) == loaded

\* Mutant: the events are read again at the save
EventsSavedReloaded(loaded, stored) == stored

\* const existingEvents = getIntrusionEvents(): the array in hand is the one saved
EventsSaved(loaded, stored) == loaded

\* logAction up to and including entries = getAuditLog()
logActionLoad(tab, action, category, description, details, rnd, d, d2) ==
    /\ steps < MaxSteps
    /\ tabs.run[tab].pc = "idle"
    /\ now' = now + d + d2
    /\ tabs' = [tabs EXCEPT !.run[tab] =
                    [Idle EXCEPT !.pc = "logAction",
                                 !.entry = AuditEntry(now + d, rnd, now + d + d2,
                                                      action, category, description, details),
                                 !.loaded = getAuditLog,
                                 !.seen = Len(tabs.done)]]
    /\ steps' = steps + 1
    /\ UNCHANGED <<devices, events, last, rep, newCount, otherStores, env>>

\* logAction from entries.push(entry) to the return
logActionSave(tab) ==
    /\ tabs.run[tab].pc = "logAction"
    /\ UNCHANGED <<devices, events, now, newCount, latency, hist, steps, env>>
    /\ LET r == tabs.run[tab]
       IN /\ audit' = AuditTrimmed(EntriesSaved(r.loaded, audit), r.entry)
          /\ tabs' = [tabs EXCEPT
                         !.run[tab] = Idle,
                         !.done = Append(@, Done(tab, "logAction", Undef, r,
                                                 r.entry, audit, audit'))]
          /\ last' = Op("logAction", Undef, <<>>, r.entry)
    /\ rep' = NoRep

\* detectIntrusions up to and including now = Date.now()
detectLoad(tab, currentMembers, d) ==
    /\ steps < MaxSteps
    /\ tabs.run[tab].pc = "idle"
    /\ now' = now + d
    /\ tabs' = [tabs EXCEPT !.run[tab] =
                    [Idle EXCEPT !.pc = "detect",
                                 !.members = currentMembers,
                                 !.devs = devices,
                                 !.loaded = events,
                                 !.t = now + d,
                                 !.seen = Len(tabs.done)]]
    /\ steps' = steps + 1
    /\ UNCHANGED <<devices, events, last, rep, newCount, otherStores, env>>

\* detectIntrusions from the loop to the return; the upserts of the loop
\* read the registry as it is stored now
detectSave(tab) ==
    /\ tabs.run[tab].pc = "detect"
    /\ UNCHANGED <<now, newCount, otherStores, steps, env>>
    /\ LET r == tabs.run[tab]
           st == DetectLoop([newEvents |-> <<>>, devices |-> devices],
                            r.members, r.devs, r.loaded, r.t)
       IN /\ devices' = st.devices
          /\ events' = IF Len(st.newEvents) > 0
                       THEN TrimmedLog(EventsSaved(r.loaded, events), st.newEvents)
                       ELSE events
          /\ tabs' = [tabs EXCEPT
                         !.run[tab] = Idle,
                         !.done = Append(@, Done(tab, "detect", Undef, r,
                                                 st.newEvents, events, events'))]
          /\ last' = Op("detect", Undef, r.members, st.newEvents)
    /\ rep' = NoRep

\* acknowledgeEvent in one tab, whole
acknowledgeEventBy(tab, eventId) ==
    /\ steps < MaxSteps
    /\ tabs.run[tab].pc = "idle"
    /\ UNCHANGED <<devices, now, newCount, otherStores, env>>
    /\ events' = Acknowledge(events, eventId)
    /\ tabs' = [tabs EXCEPT !.done =
                    Append(@, Done(tab, "acknowledge", eventId,
                                   [seen |-> Len(tabs.done), loaded |-> events],
                                   <<>>, events, events'))]
    /\ last' = Op("acknowledge", eventId, <<>>, <<>>)
    /\ rep' = NoRep
    /\ steps' = steps + 1

\* Nothing to report, nothing changed, and a device seen on a second network
TabBatches ==
    {<<>>,
     <<Member("n1", "k1", TRUE, "a1", "v1")>>,
     <<Member("n2", "k2", FALSE, "", "v1")>>}

InitTabs ==
    /\ \E s \in InitStores \ {[devices |-> <<>>, events |-> <<>>]} :
            devices = s.devices /\ events = s.events
    /\ audit = Logged(1)
    /\ latency = <<>>
    /\ hist = NoHist
    /\ now = T0
    /\ last = [op |-> "init", arg |-> Undef, batch |-> <<>>, returned |-> <<>>,
               events0 |-> events, devices0 |-> devices,
               audit0 |-> audit, latency0 |-> latency, at |-> T0]
    /\ rep = NoRep
    /\ newCount = [p \in Pairs |-> CountNew(events, p)]
    /\ steps = 0
    /\ env = Browser
    /\ tabs = NoneInFlight

NextTabs ==
    \/ \E tab \in TabIds, rnd \in AuditRandom, desc \in AuditDescriptions,
              d \in CapDeltas :
            logActionLoad(tab, "network_create", "network", desc, Undef, rnd, d, 0)
    \/ \E tab \in TabIds : logActionSave(tab)
    \/ \E tab \in TabIds, b \in TabBatches, d \in CapDeltas : detectLoad(tab, b, d)
    \/ \E tab \in TabIds : detectSave(tab)
    \/ \E tab \in TabIds, e \in Range(events) : acknowledgeEventBy(tab, e.id)
    \/ \E tab \in TabIds : acknowledgeEventBy(tab, NoSuchId)

SpecTabs == InitTabs /\ [][NextTabs]_vars

---------------------------------------------------------------------------
(* Properties *)

TimedTypes == {"unauthorized_join", "ip_change", "version_change"}

Returned(type) == {e \in Range(last.returned) : e.type = type}

IsKnown(devs, nodeId) == FindIndex(devs, nodeId) > 0

DeviceOf(devs, nodeId) == devs[FindIndex(devs, nodeId)]

Max(S) == CHOOSE x \in S : \A y \in S : y <= x

DistinctIds(evs) ==
    \A i, j \in 1..Len(evs) : evs[i].id = evs[j].id => i = j

\* Same de-duplication key: type and nodeId, and networkId for unauthorized_join
SameKey(e, f) ==
    /\ e.type = f.type
    /\ e.nodeId = f.nodeId
    /\ e.type = "unauthorized_join" => e.networkId = f.networkId

\* The first call of a repeated detection saw one member, unknown and not yet reported
OneNewMember ==
    /\ rep.same
    /\ Len(last.batch) = 1
    /\ ~IsKnown(rep.devices00, last.batch[1].nodeId)
    /\ CountNew(rep.events00, <<last.batch[1].nodeId, last.batch[1].networkId>>) = 0

\* C1: two detectIntrusions calls in succession on the same one-member batch,
\* the member unknown and not yet reported as new on its network: the first
\* call returns exactly one event, a new_device event for the member, and the
\* second call returns no event.
C1_OneNewDeviceInTotal ==
    OneNewMember =>
        /\ Len(rep.first) = 1
        /\ rep.first[1].type = "new_device"
        /\ rep.first[1].nodeId = last.batch[1].nodeId
        /\ rep.first[1].networkId = last.batch[1].networkId
        /\ last.returned = <<>>

C1_Witness == OneNewMember /\ Len(rep.first) = 1 /\ last.returned = <<>>

\* C2 (as stated): a detectIntrusions call repeated on the same batch less than
\* one hour after the first returns no unauthorized_join, ip_change or
\* version_change event.
C2_RepeatReturnsNoTimedEvent ==
    (rep.same /\ rep.dt < HOUR) =>
        \A e \in Range(last.returned) : e.type \notin TimedTypes

\* C2 (amended): a detectIntrusions call repeated on the same batch less than
\* one hour after the first returns no unauthorized_join, ip_change or
\* version_change event with the de-duplication key of an event the first call
\* returned.
C2_RepeatDoesNotRepeatFirstCall ==
    (rep.same /\ rep.dt < HOUR) =>
        \A e \in Range(last.returned), f \in Range(rep.first) :
            e.type \in TimedTypes => ~SameKey(e, f)

C2_Witness ==
    /\ rep.same
    /\ rep.dt < HOUR
    /\ \E f \in Range(rep.first) : f.type \in TimedTypes
    /\ \A e \in Range(last.returned) : e.type \notin TimedTypes

\* C3 (as stated): detectIntrusions emits at most one new_device event for a
\* (nodeId, networkId) pair over the whole run.
C3_AtMostOneNewDeviceEver == \A p \in Pairs : newCount[p] <= 1

\* C3 (amended): detectIntrusions emits a new_device event for a member only
\* if its nodeId is not registered and the persisted log holds no new_device
\* event for its (nodeId, networkId) when the call starts.
C3_NoNewDeviceWhileLogged ==
    last.op = "detect" =>
        \A e \in Returned("new_device") :
            /\ ~IsKnown(last.devices0, e.nodeId)
            /\ ~\E f \in Range(last.events0) :
                    f.type = "new_device" /\ f.nodeId = e.nodeId
                        /\ f.networkId = e.networkId

C3_Witness ==
    /\ last.op = "detect"
    /\ \E m \in Range(last.batch) :
            /\ ~IsKnown(last.devices0, m.nodeId)
            /\ CountNew(last.events0, <<m.nodeId, m.networkId>>) = 1
            /\ CountNew(last.returned, <<m.nodeId, m.networkId>>) = 0

\* C4: the events one detectIntrusions call returns have pairwise distinct
\* ids, and so have the events of the persisted log (every batch of the
\* specification lists a (nodeId, networkId) pair at most once).
C4_EventIdsDistinct ==
    /\ last.op = "detect" => DistinctIds(last.returned)
    /\ DistinctIds(events)

\* C5: an unauthorized_join or ip_change event is emitted with severity info
\* if the registered device is trusted when the call starts and warning
\* otherwise; a new_device event with warning; a version_change event with info.
C5_Severity ==
    last.op = "detect" =>
        \A e \in Range(last.returned) :
            /\ e.type \in {"unauthorized_join", "ip_change"} =>
                    e.severity = (IF DeviceOf(last.devices0, e.nodeId).trusted
                                  THEN "info" ELSE "warning")
            /\ e.type = "new_device" => e.severity = "warning"
            /\ e.type = "version_change" => e.severity = "info"

C5_Witness ==
    /\ last.op = "detect"
    /\ \E e \in Range(last.returned) :
            e.type = "unauthorized_join" /\ e.severity = "info"
    /\ \E e \in Range(last.returned) :
            e.type = "ip_change" /\ e.severity = "info"

\* C6: after detectIntrusions, the networks of every device registered when
\* the call started are its previous networks united with every networkId
\* under which the device is listed in the batch.
C6_NetworksUnited ==
    last.op = "detect" =>
        \A d0 \in Range(last.devices0) :
            /\ IsKnown(devices, d0.nodeId)
            /\ Range(DeviceOf(devices, d0.nodeId).networks) =
                    Range(d0.networks)
                        \cup {m.networkId : m \in {x \in Range(last.batch) :
                                                    x.nodeId = d0.nodeId}}

\* The value detectIntrusions is to leave in an optional field f: that of the
\* last batch entry of the device carrying a non-empty one, else the old value
Carrying(b, nodeId, f) ==
    {i \in 1..Len(b) : b[i].nodeId = nodeId /\ Truthy(b[i][f])}

LastObserved(old, b, nodeId, f) ==
    IF Carrying(b, nodeId, f) = {} THEN old
    ELSE b[Max(Carrying(b, nodeId, f))][f]

\* C7: after detectIntrusions, physicalAddress and clientVersion of every
\* registered device are the value of the last batch entry of the device that
\* carried a non-empty one, or the stored value if none did; a stored
\* non-empty value is never replaced by an empty or absent one.
C7_LastNonEmptyObservationKept ==
    last.op = "detect" =>
        \A d0 \in Range(last.devices0) :
            \A f \in {"physicalAddress", "clientVersion"} :
                /\ DeviceOf(devices, d0.nodeId)[f] =
                        LastObserved(d0[f], last.batch, d0.nodeId, f)
                /\ Truthy(d0[f]) => Truthy(DeviceOf(devices, d0.nodeId)[f])

\* Number of events of the previous log that the last operation dropped from
\* its front (for the operations that keep the order of the log)
Dropped == Len(last.events0) + Len(last.returned) - Len(events)

\* C8: an acknowledged event that stays in the log stays acknowledged; a new
\* event is created unacknowledged; only acknowledgeEvent changes the flag of
\* an event.
C8_AcknowledgedNeverReverts ==
    /\ last.op # "clear" =>
        /\ Dropped >= 0
        /\ \A i \in (Dropped + 1)..Len(last.events0) :
            /\ events[i - Dropped].id = last.events0[i].id
            /\ last.events0[i].acknowledged => events[i - Dropped].acknowledged
            /\ last.op # "acknowledge" => events[i - Dropped] = last.events0[i]
        /\ \A j \in (Len(last.events0) - Dropped + 1)..Len(events) :
            ~events[j].acknowledged
    /\ last.op = "clear" =>
        \A e \in Range(events) : ~e.acknowledged /\ e \in Range(last.events0)
    /\ \A e \in Range(last.returned) : ~e.acknowledged

C8_Witness ==
    /\ last.op = "acknowledge"
    /\ \E i, j \in 1..Len(events) :
        /\ last.events0[i].acknowledged /\ events[i].acknowledged
        /\ ~last.events0[j].acknowledged /\ events[j].acknowledged

\* C9 (as stated): no operation removes an unacknowledged event from the log.
C9_UnacknowledgedNeverRemoved ==
    \A e0 \in Range(last.events0) :
        ~e0.acknowledged => \E e \in Range(events) : e.id = e0.id

\* C9 (amended): an event leaves the log only through clearAcknowledgedEvents,
\* which removes no unacknowledged event, or through the cap of
\* detectIntrusions, which drops the oldest events, acknowledged or not, and
\* only as many as the previous log and the new events together exceed
\* MaxEvents; acknowledgeEvent removes none.
C9_RemovedByClearOrCapOnly ==
    /\ last.op = "clear" =>
        \A i \in 1..Len(last.events0) :
            ~last.events0[i].acknowledged => last.events0[i] \in Range(events)
    /\ last.op = "acknowledge" => Len(events) = Len(last.events0)
    /\ last.op = "detect" =>
        /\ Dropped = (IF Len(last.events0) + Len(last.returned) > MaxEvents
                      THEN Len(last.events0) + Len(last.returned) - MaxEvents
                      ELSE 0)
        /\ \A i \in (Dropped + 1)..Len(last.events0) :
                events[i - Dropped] = last.events0[i]

C9_Witness ==
    /\ last.op = "detect"
    /\ Dropped = 2
    /\ ~last.events0[1].acknowledged
    /\ \A e \in Range(events) : e.id # last.events0[1].id

\* C10: after a detectIntrusions call that produced events, the log is the
\* last MaxEvents elements of the previous log followed by the new events;
\* a call that produced none leaves the log unchanged; the log never holds
\* more than MaxEvents events.
C10_LogIsLastMaxEvents ==
    /\ Len(events) <= MaxEvents
    /\ last.op = "detect" =>
        LET all == last.events0 \o last.returned
            skip == Len(all) - Len(events)
        IN /\ Len(events) = Min(Len(all), MaxEvents)
           /\ \A j \in 1..Len(events) : events[j] = all[j + skip]
           /\ last.returned = <<>> => events = last.events0

C10_Witness ==
    /\ last.op = "detect"
    /\ Len(last.events0) + Len(last.returned) > MaxEvents
    /\ Len(events) = MaxEvents
    /\ events[MaxEvents] = last.returned[Len(last.returned)]


---------------------------------------------------------------------------
(* C11 *)

LastK(s, k) == SubSeq(s, Len(s) - k + 1, Len(s))

\* C11 as stated: every event a detectIntrusions call returns is in the
\* persisted log when the call returns, and none of them was in the log
\* before the call.
C11_ReturnedArePersisted ==
    last.op = "detect" =>
        \A i \in 1..Len(last.returned) :
            /\ last.returned[i] \in Range(events)
            /\ last.returned[i] \notin Range(last.events0)

\* C11 amended: the last min(n, MaxEvents) of the n events a detectIntrusions
\* call returns are the end of the persisted log when the call returns (all
\* of them when n <= MaxEvents), no returned event was in the log before the
\* call, and the log holds nothing but earlier entries and returned events.
C11_ReturnedAreTheNewTail ==
    last.op = "detect" =>
        LET k == Min(Len(last.returned), MaxEvents)
        IN /\ k > 0 => LastK(events, k) = LastK(last.returned, k)
           /\ k = 0 => events = last.events0
           /\ \A i \in 1..Len(last.returned) :
                 last.returned[i] \notin Range(last.events0)
           /\ Range(events) \subseteq Range(last.events0) \cup Range(last.returned)

C11_Witness ==
    /\ last.op = "detect"
    /\ Len(last.returned) > MaxEvents
    /\ last.returned[1] \notin Range(events)


---------------------------------------------------------------------------
(* C12 *)

\* C12: the audit log is exactly the last min(n, MAX_ENTRIES) of the n
\* entries logAction has returned since the log was last empty or cleared,
\* in insertion order; a logAction call puts the entry it returns at the
\* end, leaves the entries before it as they were and drops only the oldest.
C12_AuditLogIsLastEntries ==
    /\ getAuditLog = LastK(hist.created, Min(Len(hist.created), MAX_ENTRIES))
    /\ last.op = "logAction" =>
          LET k == Len(getAuditLog) - 1
          IN /\ getAuditLog[k + 1] = last.returned
             /\ SubSeq(getAuditLog, 1, k) = LastK(hist.audit0, k)

\* The 520th append: the first retained entry is the 21st inserted
C12_Witness ==
    /\ last.op = "logAction"
    /\ Len(hist.created) = MAX_ENTRIES + 20
    /\ Len(getAuditLog) = MAX_ENTRIES
    /\ getAuditLog[1] = hist.created[21]
    /\ getAuditLog[1].description = 20


---------------------------------------------------------------------------
(* C13 *)

\* C13: every stored peer has at most MAX_SAMPLES_PER_PEER samples, and they
\* are the most recent min(MAX_SAMPLES_PER_PEER, k) of the k samples
\* recorded for the peer since it was last introduced, in recording order.
C13_SamplesAreMostRecent ==
    \A i \in 1..Len(latency) :
        LET samples == latency[i].samples
            recorded == hist.recorded[latency[i].nodeId]
        IN /\ Len(samples) <= MAX_SAMPLES_PER_PEER
           /\ samples = LastK(recorded, Min(MAX_SAMPLES_PER_PEER, Len(recorded)))

\* The 220th sample of a peer: the first retained sample is the 21st
C13_Witness ==
    /\ last.op = "recordLatency"
    /\ Len(hist.recorded[last.arg]) = MAX_SAMPLES_PER_PEER + 20
    /\ Len(getPeerLatencyHistory(last.arg)) = MAX_SAMPLES_PER_PEER
    /\ getPeerLatencyHistory(last.arg)[1].latency = 20

---------------------------------------------------------------------------
(* C14 *)

\* Peers in the store before the last call and no longer in it
Evicted == NodeIdsOf(hist.latency0) \ NodeIdsOf(latency)

FewestSamples(history, nodeId) ==
    \E i \in 1..Len(history) :
        /\ history[i].nodeId = nodeId
        /\ \A j \in 1..Len(history) :
              Len(history[i].samples) <= Len(history[j].samples)

\* C14: the store holds at most MAX_PEERS peers, each nodeId once; a
\* recordLatency call for a stored peer evicts none, a call for a new peer
\* evicts none below MAX_PEERS peers and at MAX_PEERS peers exactly one, a
\* peer of minimum sample count among those stored before the call.
C14_PeerCapEvictsFewest ==
    /\ Len(latency) <= MAX_PEERS
    /\ Cardinality(NodeIdsOf(latency)) = Len(latency)
    /\ last.op = "recordLatency" =>
          IF last.arg \notin NodeIdsOf(hist.latency0)
                /\ Len(hist.latency0) = MAX_PEERS
          THEN /\ Cardinality(Evicted) = 1
               /\ \A q \in Evicted : FewestSamples(hist.latency0, q)
          ELSE Evicted = {}

C14_Witness ==
    /\ last.op = "recordLatency"
    /\ last.arg \notin NodeIdsOf(hist.latency0)
    /\ Len(hist.latency0) = MAX_PEERS
    /\ Evicted # {}
    /\ Len(latency) = MAX_PEERS

---------------------------------------------------------------------------
(* C15 *)

StatsSum(nodeId) ==
    LET samples == getPeerLatencyHistory(nodeId)
    IN SumFrom([i \in 1..Len(samples) |-> samples[i].latency], 1, Len(samples))

\* C15: getLatencyStats is null exactly for a peer without samples;
\* otherwise min and max are the least and greatest latency, min <= avg <=
\* max, avg is an integer within one half of the arithmetic mean, and
\* current is the latency of the last sample.
C15_StatsOfHistory ==
    \A q \in Range(PeerIds) :
        LET stats == getLatencyStats(q)
            samples == getPeerLatencyHistory(q)
            n == Len(samples)
        IN /\ stats.null <=> n = 0
           /\ ~stats.null =>
                /\ stats.min <= stats.avg /\ stats.avg <= stats.max
                /\ \E i \in 1..n : samples[i].latency = stats.min
                /\ \E i \in 1..n : samples[i].latency = stats.max
                /\ \A i \in 1..n : stats.min <= samples[i].latency
                                      /\ samples[i].latency <= stats.max
                /\ 2 * n * stats.avg - 2 * StatsSum(q) <= n
                /\ 2 * StatsSum(q) - 2 * n * stats.avg <= n
                /\ stats.current = samples[n].latency

\* A peer just measured whose mean is not an integer, next to a peer never
\* measured
C15_Witness ==
    /\ last.op = "recordLatency"
    /\ ~getLatencyStats(last.arg).null
    /\ getLatencyStats(last.arg).avg * Len(getPeerLatencyHistory(last.arg))
            # StatsSum(last.arg)
    /\ getLatencyStats(last.arg).min < 0
    /\ \E q \in Range(PeerIds) : getLatencyStats(q).null


---------------------------------------------------------------------------
(* C16 *)

\* C16: upsertKnownDevice is idempotent: applying the same payload again
\* at the same clock value leaves the registry, and so the record returned,
\* as the first application left them.
C16_UpsertIdempotent ==
    last.op = "upsert" =>
        UpsertDevices(devices, last.arg, last.at) = devices

---------------------------------------------------------------------------
(* C17 *)

StringFields == {"nickname", "notes", "physicalAddress", "clientVersion"}

\* The payload leaves field f out or supplies it as undefined
NotSupplied(device, f) ==
    \/ f \notin DOMAIN device
    \/ f \in StringFields /\ device[f] = Undef

\* C17: upsertKnownDevice on a registered nodeId sets lastSeen to now, keeps
\* every other field the payload leaves out or supplies as undefined, and
\* leaves the other devices and the size of the registry as they were; on
\* an unseen nodeId it appends one record with firstSeen = lastSeen = now
\* and the fields left out defaulted to '', [] and false.
C17_UpsertFrame ==
    last.op = "upsert" =>
        LET old == last.devices0
            idx == FindIndex(old, last.arg.nodeId)
        IN IF idx > 0
           THEN /\ Len(devices) = Len(old)
                /\ \A j \in 1..Len(old) : j # idx => devices[j] = old[j]
                /\ devices[idx].lastSeen = last.at
                /\ \A f \in DeviceFields \ {"lastSeen"} :
                      NotSupplied(last.arg, f) => devices[idx][f] = old[idx][f]
           ELSE /\ Len(devices) = Len(old) + 1
                /\ SubSeq(devices, 1, Len(old)) = old
                /\ devices[Len(devices)].nodeId = last.arg.nodeId
                /\ devices[Len(devices)].firstSeen = last.at
                /\ devices[Len(devices)].lastSeen = last.at
                /\ NotSupplied(last.arg, "nickname") => devices[Len(devices)].nickname = ""
                /\ NotSupplied(last.arg, "notes") => devices[Len(devices)].notes = ""
                /\ "tags" \notin DOMAIN last.arg => devices[Len(devices)].tags = <<>>
                /\ "networks" \notin DOMAIN last.arg => devices[Len(devices)].networks = <<>>
                /\ "trusted" \notin DOMAIN last.arg => devices[Len(devices)].trusted = FALSE

---------------------------------------------------------------------------
(* C18 *)

\* C18: no two records of the device registry have the same nodeId.
C18_NodeIdUnique ==
    \A i, j \in 1..Len(devices) :
        devices[i].nodeId = devices[j].nodeId => i = j

\* Two devices registered, the last operation an upsert of one of them
C18_Witness ==
    /\ last.op = "upsert"
    /\ Len(devices) = 2
    /\ IsKnown(last.devices0, last.arg.nodeId)

---------------------------------------------------------------------------
(* C19 *)

NoDuplicate(s) == \A i, j \in 1..Len(s) : s[i] = s[j] => i = j

\* C19: no device's tags hold a duplicate; addDeviceTag changes nothing
\* when the device is absent or has the tag; removeDeviceTag removes that
\* tag alone, the others staying in place.
C19_TagsDistinct ==
    /\ \A i \in 1..Len(devices) : NoDuplicate(devices[i].tags)
    /\ last.op = "addTag" =>
          LET idx == FindIndex(last.devices0, last.arg[1])
          IN (idx = 0 \/ last.arg[2] \in Range(last.devices0[idx].tags))
                => devices = last.devices0
    /\ last.op = "removeTag" =>
          /\ Len(devices) = Len(last.devices0)
          /\ \A i \in 1..Len(devices) :
                /\ [devices[i] EXCEPT !.tags = <<>>]
                      = [last.devices0[i] EXCEPT !.tags = <<>>]
                /\ devices[i].tags =
                      IF devices[i].nodeId = last.arg[1]
                      THEN SelectSeq(last.devices0[i].tags, LAMBDA x : x # last.arg[2])
                      ELSE last.devices0[i].tags

---------------------------------------------------------------------------
(* C20 *)

\* C20: every device of the registry has lastSeen >= firstSeen.
C20_LastSeenNotBeforeFirstSeen ==
    \A i \in 1..Len(devices) : devices[i].lastSeen >= devices[i].firstSeen


---------------------------------------------------------------------------
(* C21 *)

\* Positions of the unacknowledged events of the log before the last call
KeptPositions == {i \in 1..Len(last.events0) : ~last.events0[i].acknowledged}

\* C21: after clearAcknowledgedEvents the log holds no acknowledged event
\* and holds every event that was unacknowledged before, unchanged and in
\* the same relative order, and nothing else.
C21_ClearRemovesExactlyAcknowledged ==
    last.op = "clear" =>
        /\ \A k \in 1..Len(events) : ~events[k].acknowledged
        /\ Len(events) = Cardinality(KeptPositions)
        /\ \A i \in KeptPositions :
              events[Cardinality({j \in KeptPositions : j <= i})] = last.events0[i]

\* A full log, every second event acknowledged, is cleared
C21_Witness ==
    /\ last.op = "clear"
    /\ Len(last.events0) = MaxEvents
    /\ Len(events) > 1
    /\ Len(events) < Len(last.events0)


---------------------------------------------------------------------------
(* C22 *)

Matches(evs, eventId) == {i \in 1..Len(evs) : evs[i].id = eventId}

\* C22: acknowledgeEvent with an id no event of the log has leaves the log,
\* the registry, the audit log and the latency history as they were; with
\* an id an event has it sets acknowledged on one event of that id and
\* leaves every other event, and the other stores, as they were.
C22_AcknowledgeFrame ==
    last.op = "acknowledge" =>
        /\ devices = last.devices0
        /\ audit = last.audit0
        /\ latency = last.latency0
        /\ Matches(last.events0, last.arg) = {} => events = last.events0
        /\ Matches(last.events0, last.arg) # {} =>
              /\ Len(events) = Len(last.events0)
              /\ \E i \in Matches(last.events0, last.arg) :
                    /\ events[i] = [last.events0[i] EXCEPT !.acknowledged = TRUE]
                    /\ \A j \in 1..Len(events) : j # i => events[j] = last.events0[j]

\* An unacknowledged event is acknowledged next to another that stays
\* unacknowledged
C22_Witness ==
    /\ last.op = "acknowledge"
    /\ \E i, j \in 1..Len(events) :
          /\ ~last.events0[i].acknowledged /\ events[i].acknowledged
          /\ ~last.events0[j].acknowledged /\ ~events[j].acknowledged


---------------------------------------------------------------------------
(* C28 *)

RegistryOps == {"upsert", "remove", "addTag", "removeTag"}

EventLogOps == {"acknowledge", "clear"}

AuditOps == {"logAction", "clearAuditLog"}

LatencyOps == {"recordLatency", "clearLatencyHistory"}

\* C28: an operation of the latency history changes that store only, one
\* of the audit log the audit log only, one of the registry the registry
\* only (the events of a removed device stay), acknowledgeEvent and
\* clearAcknowledgedEvents the event log only, and detectIntrusions the
\* registry and the event log only.
C28_OwnStoreOnly ==
    /\ last.op \notin RegistryOps \cup {"detect"} => devices = last.devices0
    /\ last.op \notin EventLogOps \cup {"detect"} => events = last.events0
    /\ last.op \notin AuditOps => audit = last.audit0
    /\ last.op \notin LatencyOps => latency = last.latency0

\* A device is removed and an event about it stays in the log
C28_Witness ==
    /\ last.op = "remove"
    /\ IsKnown(last.devices0, last.arg)
    /\ ~IsKnown(devices, last.arg)
    /\ \E e \in Range(events) : e.nodeId = last.arg
    /\ audit # <<>>
    /\ latency # <<>>


---------------------------------------------------------------------------
(* C24 *)

\* C24: every event detectIntrusions returns carries the nodeId and the
\* networkId of a member of the batch; a call with an empty batch returns
\* nothing and leaves the registry and the event log as they were.
C24_EventsOfBatchMembersOnly ==
    last.op = "detect" =>
        /\ \A e \in Range(last.returned) :
              \E i \in 1..Len(last.batch) :
                  /\ last.batch[i].nodeId = e.nodeId
                  /\ last.batch[i].networkId = e.networkId
        /\ last.batch = <<>> =>
              /\ last.returned = <<>>
              /\ devices = last.devices0
              /\ events = last.events0

\* A call for k2 alone returns an event while the log holds events of k1
C24_Witness ==
    /\ last.op = "detect"
    /\ last.returned # <<>>
    /\ \A i \in 1..Len(last.batch) : last.batch[i].networkId = "k2"
    /\ \E e \in Range(last.events0) : e.networkId = "k1"

---------------------------------------------------------------------------
(* C26 *)

\* C26: detectIntrusions returns an unauthorized_join event for a member
\* exactly when the member is not authorized, its nodeId was registered
\* when the call began, and the log then held no unauthorized_join event of
\* the same nodeId and networkId less than HOUR old; a member whose nodeId
\* was not registered yields no event other than new_device.
C26_UnauthorizedJoinExactly ==
    last.op = "detect" =>
        \A i \in 1..Len(last.batch) :
            LET member == last.batch[i]
                known == IsKnown(last.devices0, member.nodeId)
            IN /\ (\E e \in Range(last.returned) :
                       /\ e.type = "unauthorized_join"
                       /\ e.nodeId = member.nodeId
                       /\ e.networkId = member.networkId)
                  <=>
                  (/\ ~member.authorized
                   /\ known
                   /\ \A j \in 1..Len(last.events0) :
                         ~ /\ last.events0[j].type = "unauthorized_join"
                           /\ last.events0[j].nodeId = member.nodeId
                           /\ last.events0[j].networkId = member.networkId
                           /\ last.at - last.events0[j].timestamp < HOUR)
               /\ ~known =>
                     \A e \in Range(last.returned) :
                         (e.nodeId = member.nodeId /\ e.networkId = member.networkId)
                         => e.type = "new_device"

\* An earlier event exactly HOUR old does not suppress
C26_Witness ==
    /\ last.op = "detect"
    /\ \E e \in Range(last.returned), e0 \in Range(last.events0) :
          /\ e.type = "unauthorized_join" /\ e0.type = "unauthorized_join"
          /\ e.nodeId = e0.nodeId /\ e.networkId = e0.networkId
          /\ e.timestamp - e0.timestamp = HOUR

---------------------------------------------------------------------------
(* C27 *)

Apart(evs, type, window) ==
    \A i, j \in 1..Len(evs) :
        (i # j /\ evs[i].type = type /\ evs[j].type = type
            /\ evs[i].nodeId = evs[j].nodeId /\ evs[i].timestamp <= evs[j].timestamp)
        => evs[j].timestamp - evs[i].timestamp >= window

\* C27: two ip_change events of one nodeId in the log are at least HOUR
\* apart, two version_change events of one nodeId at least DAY apart.
C27_ChangeEventsApart ==
    /\ Apart(events, "ip_change", HOUR)
    /\ Apart(events, "version_change", DAY)

---------------------------------------------------------------------------
(* C29 *)

OperatorFields == {"nodeId", "nickname", "tags", "trusted", "notes", "firstSeen"}

---------------------------------------------------------------------------
(* C23 *)

\* C23: no operation fails because of storage: outside a browser, or with
\* a stored value that is not JSON, every read returns the empty collection
\* and every mutating operation completes without raising an error.
C23_NoStorageFailure ==
    /\ last.op # "SyntaxError"
    /\ (last.op = "read" /\ (~env.window \/ last.arg \in env.corrupt))
            => last.returned = <<>>

\* Outside a browser every operation completes and nothing is stored
C23_ServerRenderDegrades ==
    ~env.window =>
        /\ last.op # "SyntaxError"
        /\ devices = <<>> /\ events = <<>> /\ audit = <<>> /\ latency = <<>>
        /\ last.op = "read" => last.returned = <<>>


---------------------------------------------------------------------------
(* C25 *)

\* The operation done[j] of one tab loaded before the operation done[i] of
\* the other tab saved, and saved after it
Interleaved(i, j, first, second) ==
    /\ i < j
    /\ tabs.done[i].op = first
    /\ tabs.done[j].op = second
    /\ tabs.done[i].tab # tabs.done[j].tab
    /\ tabs.done[j].seen < i

\* C25: when two logAction calls of two tabs both load before either
\* saves, both complete, and the log the second saver leaves is the log it
\* loaded plus its own entry: the entry of the first saver is not in it.
C25_SecondSaverWins ==
    \A i, j \in 1..Len(tabs.done) :
        Interleaved(i, j, "logAction", "logAction") =>
            LET first == tabs.done[i]
                second == tabs.done[j]
            IN /\ second.after = AuditTrimmed(second.loaded, second.returned)
               /\ \E k \in 1..Len(second.after) : second.after[k] = second.returned
               /\ (first.returned # second.returned
                    /\ \A k \in 1..Len(second.loaded) : second.loaded[k] # first.returned)
                  => \A k \in 1..Len(second.after) : second.after[k] # first.returned

\* The entry of the first saver was stored and is gone after the second save
C25_Witness ==
    \E i, j \in 1..Len(tabs.done) :
        /\ Interleaved(i, j, "logAction", "logAction")
        /\ j = i + 1
        /\ tabs.done[i].returned # tabs.done[j].returned
        /\ \E k \in 1..Len(tabs.done[i].after) :
              tabs.done[i].after[k] = tabs.done[i].returned
        /\ \A k \in 1..Len(audit) : audit[k] # tabs.done[i].returned
        /\ audit = tabs.done[j].after

---------------------------------------------------------------------------
(* C30 *)

\* C30: an event acknowledged by one tab between the load and the save of
\* a detectIntrusions call of another tab is acknowledged in the log that
\* call leaves.
C30_AcknowledgedSurvivesInterleaving ==
    \A i, j \in 1..Len(tabs.done) :
        Interleaved(i, j, "acknowledge", "detect") =>
            \A k \in 1..Len(tabs.done[j].after) :
                tabs.done[j].after[k].id = tabs.done[i].arg
                    => tabs.done[j].after[k].acknowledged

\* C30 as the code has it: the event stays acknowledged when the call
\* returns no event (nothing is saved); when the call returns events it
\* saves the log it loaded followed by them, so an event that was not
\* acknowledged at the load is persisted not acknowledged.
C30_AcknowledgedSurvivesOnlyWithoutSave ==
    \A i, j \in 1..Len(tabs.done) :
        Interleaved(i, j, "acknowledge", "detect") =>
            LET ack == tabs.done[i]
                det == tabs.done[j]
            IN IF det.returned = <<>>
               THEN /\ det.after = det.before
                    /\ \A k \in 1..Len(det.after) :
                          det.after[k].id = ack.arg => det.after[k].acknowledged
               ELSE /\ det.after = TrimmedLog(det.loaded, det.returned)
                    /\ Len(det.loaded) + Len(det.returned) <= MaxEvents =>
                          \A k \in 1..Len(det.loaded) :
                              det.after[k].acknowledged = det.loaded[k].acknowledged

\* The acknowledgement of the other tab is undone by the save
C30_Witness ==
    \E i, j \in 1..Len(tabs.done) :
        /\ Interleaved(i, j, "acknowledge", "detect")
        /\ tabs.done[j].returned # <<>>
        /\ \E k \in 1..Len(tabs.done[j].before) :
              /\ tabs.done[j].before[k].id = tabs.done[i].arg
              /\ tabs.done[j].before[k].acknowledged
              /\ ~tabs.done[j].after[k].acknowledged
        /\ events = tabs.done[j].after

===========================================================================
